---- MODULE Spec2Model ----
(***************************************************************************)
(* Model of smartthings-ac-exporter.py: the STACCollector class (catalog   *)
(* load, value mapping, status flattening, sample rendering) and run().    *)
(*                                                                         *)
(* Raw field names are sequences of one-character strings, so that the     *)
(* snake-case conversion is computed character by character; canonical     *)
(* names, catalog names and mapping keys are strings.                      *)
(***************************************************************************)
EXTENDS Naturals, Sequences, FiniteSets, TLC

(***************************************************************************)
(* Bounds of the model.                                                    *)
(***************************************************************************)
MaxCatalog == 2

MaxFields == 2

(***************************************************************************)
(* inflection.underscore(word), as called at lines 97 and 104:             *)
(*   word = re.sub(r"([A-Z]+)([A-Z][a-z])", r'\1_\2', word)                *)
(*   word = re.sub(r"([a-z\d])([A-Z])", r'\1_\2', word)                    *)
(*   word = word.replace("-", "_")                                         *)
(*   return word.lower()                                                   *)
(***************************************************************************)
UpperChars ==
    << "A", "B", "C", "D", "E", "F", "G", "H", "I", "J", "K", "L", "M",
       "N", "O", "P", "Q", "R", "S", "T", "U", "V", "W", "X", "Y", "Z" >>

LowerChars ==
    << "a", "b", "c", "d", "e", "f", "g", "h", "i", "j", "k", "l", "m",
       "n", "o", "p", "q", "r", "s", "t", "u", "v", "w", "x", "y", "z" >>

DigitChars == << "0", "1", "2", "3", "4", "5", "6", "7", "8", "9" >>

IsUpper(c) == \E i \in DOMAIN UpperChars : UpperChars[i] = c

IsLower(c) == \E i \in DOMAIN LowerChars : LowerChars[i] = c

IsDigit(c) == \E i \in DOMAIN DigitChars : DigitChars[i] = c

ToLower(c) ==
    IF IsUpper(c)
    THEN LowerChars[CHOOSE i \in DOMAIN UpperChars : UpperChars[i] = c]
    ELSE c

\* First substitution: "_" between a run of capitals and a capital that
\* starts a lower-case word.
RECURSIVE SplitAcronym(_, _)
SplitAcronym(cs, i) ==
    IF i > Len(cs) THEN <<>>
    ELSE LET cut == /\ i >= 2
                    /\ i + 1 <= Len(cs)
                    /\ IsUpper(cs[i - 1])
                    /\ IsUpper(cs[i])
                    /\ IsLower(cs[i + 1])
         IN  (IF cut THEN << "_", cs[i] >> ELSE << cs[i] >>)
                 \o SplitAcronym(cs, i + 1)

\* Second substitution: "_" between a lower-case letter or digit and a capital.
RECURSIVE SplitCamel(_, _)
SplitCamel(cs, i) ==
    IF i > Len(cs) THEN <<>>
    ELSE LET cut == /\ i >= 2
                    /\ IsLower(cs[i - 1]) \/ IsDigit(cs[i - 1])
                    /\ IsUpper(cs[i])
         IN  (IF cut THEN << "_", cs[i] >> ELSE << cs[i] >>)
                 \o SplitCamel(cs, i + 1)

DashToUnderscore(cs) == [i \in DOMAIN cs |-> IF cs[i] = "-" THEN "_" ELSE cs[i]]

LowerAll(cs) == [i \in DOMAIN cs |-> ToLower(cs[i])]

RECURSIVE Join(_)
Join(cs) == IF cs = <<>> THEN "" ELSE Head(cs) \o Join(Tail(cs))

underscore(word) ==
    Join(LowerAll(DashToUnderscore(SplitCamel(SplitAcronym(word, 1), 1))))

(***************************************************************************)
(* Values of a status document: a number, a string, or a mapping (a        *)
(* sequence of fields in iteration order).  One record shape throughout.   *)
(***************************************************************************)
Num(k) == [tag |-> "num", n |-> k, s |-> "", sub |-> <<>>]

Str(t) == [tag |-> "str", n |-> 0, s |-> t, sub |-> <<>>]

Dict(fields) == [tag |-> "dict", n |-> 0, s |-> "", sub |-> fields]

Field(rawName, value) == [name |-> rawName, value |-> value]

\* IsDict when nested mappings are not recognised.
IsDictNever(value) == FALSE

\* isinstance(value, dict), line 102
IsDict(value) == value.tag = "dict"

\* What a sample value has to be for the exposition to format it.
IsNumeric(value) == value.tag = "num"

(***************************************************************************)
(* self.mappings, lines 27-37                                              *)
(***************************************************************************)
Mappings ==
    [ air_conditioner_mode |->
          [cool |-> 0, dry |-> 1, wind |-> 2, auto |-> 3, heat |-> 4],
      ac_optional_mode |->
          [off |-> 0, sleep |-> 1, quiet |-> 2, smart |-> 3, speed |-> 4],
      fan_mode |->
          [auto |-> 0, low |-> 1, medium |-> 2, high |-> 3, turbo |-> 4],
      fan_oscillation_mode |->
          [fixed |-> 0, all |-> 1, vertical |-> 2, horizontal |-> 3],
      dust_filter_status |-> [normal |-> 0, wash |-> 1],
      auto_cleaning_mode |-> [off |-> 0, on |-> 1],
      switch |-> [off |-> 0, on |-> 1],
      status |-> [ready |-> 0, notready |-> 1],
      spi_mode |-> [off |-> 0, on |-> 1] ]

(***************************************************************************)
(* is_mapped(name, value), lines 66-76.  The result carries the exception  *)
(* the call raises ("none" when it returns), the returned value and the    *)
(* line it prints.  dict.get hashes its key: a dict value raises           *)
(* TypeError (unhashable type).                                            *)
(***************************************************************************)
NotMappedLine(name) == [msg |-> "not mapped - returning 0", name |-> name]

Returned(value, printed) == [exc |-> "none", val |-> value, printed |-> printed]

Raised(e) == [exc |-> e, val |-> Num(0), printed |-> <<>>]

is_mapped(mp, name, value) ==
    IF name \in DOMAIN mp
    THEN IF IsDict(value)
         THEN Raised("TypeError")
         ELSE IF value.tag = "str" /\ value.s \in DOMAIN mp[name]
              THEN Returned(Num(mp[name][value.s]), <<>>)
              ELSE Returned(Num(0), << NotMappedLine(name) >>)
    ELSE Returned(value, <<>>)

(***************************************************************************)
(* The metrics catalog: the value of the `whitelist` key, a JSON object    *)
(* (a dict, in file order) from name to {type, description}.               *)
(***************************************************************************)
Entry(name, type) == [name |-> name, type |-> type, description |-> "help"]

\* Has without the whitelist test: every name passes.
HasAnything(ml, name) == TRUE

\* `name in self.metric_list` (lines 99, 105) tests the dict's keys.
Names(ml) == {ml[i].name : i \in DOMAIN ml}

Has(ml, name) == name \in Names(ml)

(***************************************************************************)
(* Body of `for name, value in device.status.values.items()`, lines        *)
(* 95-109.  The accumulator is the local dict `metrics`, the lines printed *)
(* so far and the exception that ended the loop ("none" while it runs).    *)
(***************************************************************************)
\* Store that keeps the value already present (setdefault).
StoreFirst(metrics, name, value) == metrics @@ (name :> value)

\* metrics[name] = value: a dict assignment, the new value replaces the old.
Store(metrics, name, value) == (name :> value) @@ metrics

Assign(acc, name, r) ==
    IF r.exc # "none"
    THEN [acc EXCEPT !.exc = r.exc]
    ELSE [acc EXCEPT !.metrics = Store(acc.metrics, name, r.val),
                     !.printed = acc.printed \o r.printed]

\* lines 103-107
RECURSIVE FlattenSub(_, _, _, _, _)
FlattenSub(ml, mp, fields, i, acc) ==
    IF i > Len(fields) \/ acc.exc # "none" THEN acc
    ELSE LET sub_name == underscore(fields[i].name)
             sub_value == fields[i].value
         IN  IF ~Has(ml, sub_name)
             THEN FlattenSub(ml, mp, fields, i + 1, acc)
             ELSE FlattenSub(ml, mp, fields, i + 1,
                             Assign(acc, sub_name, is_mapped(mp, sub_name, sub_value)))

\* lines 95-109
RECURSIVE Flatten(_, _, _, _, _)
Flatten(ml, mp, fields, i, acc) ==
    IF i > Len(fields) \/ acc.exc # "none" THEN acc
    ELSE LET name == underscore(fields[i].name)
             value == fields[i].value
         IN  IF ~Has(ml, name)
             THEN Flatten(ml, mp, fields, i + 1, acc)
             ELSE IF IsDict(value)
                  THEN Flatten(ml, mp, fields, i + 1,
                               FlattenSub(ml, mp, value.sub, 1, acc))
                  ELSE Flatten(ml, mp, fields, i + 1,
                               Assign(acc, name, is_mapped(mp, name, value)))

(***************************************************************************)
(* Body of `for name, info in self.metric_list.items()`, lines 122-140:    *)
(* one catalog entry.  metrics[name] of a missing key raises KeyError.     *)
(***************************************************************************)
prefix == "smartthings_ac_"

Sample(kind, label, info, value) ==
    [kind |-> kind, name |-> prefix \o info.name,
     documentation |-> info.description, labels |-> << label >>, value |-> value]

UnknownTypeLine(name) == [msg |-> "Unknown type", name |-> name]

\* What one iteration does: yield a sample, raise, or continue.
RenderEntry(info, metrics) ==
    IF info.type = "counter"
    THEN IF info.name \in DOMAIN metrics
         THEN [exc |-> "none", yield |-> << Sample("counter", "foo", info, metrics[info.name]) >>,
               printed |-> <<>>]
         ELSE [exc |-> "KeyError", yield |-> <<>>, printed |-> <<>>]
    ELSE IF info.type \in {"gauge", "enum"}
    THEN IF info.name \in DOMAIN metrics
         THEN [exc |-> "none", yield |-> << Sample("gauge", "bar", info, metrics[info.name]) >>,
               printed |-> <<>>]
         ELSE [exc |-> "KeyError", yield |-> <<>>, printed |-> <<>>]
    ELSE IF info.type \in {"sub_metric"}
    THEN [exc |-> "none", yield |-> <<>>, printed |-> <<>>]
    ELSE [exc |-> "none", yield |-> <<>>, printed |-> << UnknownTypeLine(info.name) >>]

(***************************************************************************)
(* get_device_metrics(), lines 59-64: open, json.load, ['whitelist'].      *)
(***************************************************************************)
get_device_metrics(src) ==
    IF src.file = "missing" THEN [exc |-> "FileNotFoundError", whitelist |-> <<>>]
    ELSE IF src.file = "unparsable" THEN [exc |-> "JSONDecodeError", whitelist |-> <<>>]
    ELSE IF src.file = "no_whitelist" THEN [exc |-> "KeyError", whitelist |-> <<>>]
    ELSE [exc |-> "none", whitelist |-> src.whitelist]

(***************************************************************************)
(* Inputs.  Raw field names as the device reports them.                    *)
(***************************************************************************)
FanMode == << "F", "a", "n", "M", "o", "d", "e" >>

fanMode == << "f", "a", "n", "M", "o", "d", "e" >>

Power == << "P", "o", "w", "e", "r" >>

Status == << "S", "t", "a", "t", "u", "s" >>

Operation == << "O", "p", "e", "r", "a", "t", "i", "o", "n" >>

\* Fields a status document is made of.
FieldPool ==
    { Field(FanMode, Str("ludicrous")),
      Field(fanMode, Str("low")),
      Field(Power, Num(42)), Field(Power, Str("abc")),
      Field(Status, Str("notready")),
      Field(Operation, Dict(<< Field(Status, Str("ready")) >>)),
      Field(Operation, Dict(<< Field(Status, Dict(<<>>)) >>)) }

\* A mapping has each raw key once.
DistinctNames(seq) == \A i, j \in DOMAIN seq : seq[i].name = seq[j].name => i = j

SeqsUpTo(S, n) == UNION {[1..k -> S] : k \in 0..n}

Docs == {d \in SeqsUpTo(FieldPool, MaxFields) : DistinctNames(d)}

\* Entries a catalog is made of ("histogram" is a type collect() does not know).
EntryPool ==
    { Entry("fan_mode", "gauge"),
      Entry("power", "counter"), Entry("power", "sub_metric"),
      Entry("status", "enum"),
      Entry("operation", "sub_metric"), Entry("operation", "histogram") }

Catalogs == {c \in SeqsUpTo(EntryPool, MaxCatalog) : DistinctNames(c)}

\* ./device_metrics.json as the constructor finds it.
Source(file, whitelist) == [file |-> file, whitelist |-> whitelist]

BadSources ==
    { Source("missing", <<>>), Source("unparsable", <<>>), Source("no_whitelist", <<>>) }

Sources == BadSources \cup {Source("ok", c) : c \in Catalogs}

\* Names of the devices api.devices() lists; line 89 selects by name.
AC == "Samsung Room A/C"

DeviceLists == { <<>>, << "Other" >>, << "Other", AC, AC >> }

(***************************************************************************)
(* State.  run() and the constructor: run_pc, run_exc, token, source,      *)
(* metric_list, mappings, registered, listening.  One collect() call per   *)
(* serving thread t: its position pc[t] and its locals.                    *)
(***************************************************************************)
VARIABLES run_pc, run_exc, token, source, metric_list, mappings, registered,
          listening, pc, devices, di, status, metrics, ci, out, exc, printed,
          refreshes

vars == << run_pc, run_exc, token, source, metric_list, mappings, registered,
           listening, pc, devices, di, status, metrics, ci, out, exc, printed,
           refreshes >>

runVars == << run_pc, run_exc, token, source, metric_list, mappings, registered,
              listening >>

Threads == {1, 2}

\* attributes not assigned yet
Unset == <<>>

InitWith(srcs) ==
    /\ run_pc = "parse_args"
    /\ run_exc = "none"
    /\ token \in BOOLEAN
    /\ source \in srcs
    /\ metric_list = Unset
    /\ mappings = Unset
    /\ registered = FALSE
    /\ listening = FALSE
    /\ pc = [t \in Threads |-> "idle"]
    /\ devices = [t \in Threads |-> <<>>]
    /\ di = [t \in Threads |-> 1]
    /\ status = [t \in Threads |-> <<>>]
    /\ metrics = [t \in Threads |-> <<>>]
    /\ ci = [t \in Threads |-> 1]
    /\ out = [t \in Threads |-> <<>>]
    /\ exc = [t \in Threads |-> "none"]
    /\ printed = [t \in Threads |-> <<>>]
    /\ refreshes = [t \in Threads |-> 0]

Init == InitWith(Sources)

scrapeVars == << pc, devices, di, status, metrics, ci, out, exc, printed, refreshes >>

(***************************************************************************)
(* run(), lines 143-157, and __init__, lines 19-37.                        *)
(***************************************************************************)
\* line 21: --token is required; argparse exits without it.
ParseArgs ==
    /\ run_pc = "parse_args"
    /\ IF token
       THEN run_pc' = "load" /\ run_exc' = run_exc
       ELSE run_pc' = "exited" /\ run_exc' = "SystemExit"
    /\ UNCHANGED << token, source, metric_list, mappings, registered, listening >>
    /\ UNCHANGED scrapeVars

\* AfterLoad when a failed load is swallowed.
AfterLoadIgnoringError(r) == "set_mappings"

\* Where the constructor goes after get_device_metrics(): an exception
\* leaves __init__ and run().
AfterLoad(r) == IF r.exc = "none" THEN "set_mappings" ELSE "exited"

\* line 25
LoadCatalog ==
    /\ run_pc = "load"
    /\ LET r == get_device_metrics(source)
       IN  /\ run_pc' = AfterLoad(r)
           /\ run_exc' = r.exc
           /\ metric_list' = IF r.exc = "none" THEN r.whitelist ELSE metric_list
    /\ UNCHANGED << token, source, mappings, registered, listening >>
    /\ UNCHANGED scrapeVars

\* lines 27-37
SetMappings ==
    /\ run_pc = "set_mappings"
    /\ mappings' = Mappings
    /\ run_pc' = "register"
    /\ UNCHANGED << run_exc, token, source, metric_list, registered, listening >>
    /\ UNCHANGED scrapeVars

\* line 149: the collector is handed to the registry.
Register ==
    /\ run_pc = "register"
    /\ registered' = TRUE
    /\ run_pc' = "start_http_server"
    /\ UNCHANGED << run_exc, token, source, metric_list, mappings, listening >>
    /\ UNCHANGED scrapeVars

\* lines 151-154: the listener is bound, or the bind raises (address in use).
StartHttpServer ==
    /\ run_pc = "start_http_server"
    /\ listening' = TRUE
    /\ run_pc' = "main_loop"
    /\ UNCHANGED << run_exc, token, source, metric_list, mappings, registered >>
    /\ UNCHANGED scrapeVars

StartHttpServerRaises ==
    /\ run_pc = "start_http_server"
    /\ run_pc' = "exited"
    /\ run_exc' = "OSError"
    /\ UNCHANGED << token, source, metric_list, mappings, registered, listening >>
    /\ UNCHANGED scrapeVars

\* lines 156-157: the main thread only sleeps.
MainLoop ==
    /\ run_pc = "main_loop"
    /\ UNCHANGED vars

(***************************************************************************)
(* collect(), lines 116-140, and get_metrics(), lines 78-114, as run by    *)
(* serving thread t.  The HTTP server calls collect() once per request.    *)
(***************************************************************************)
\* NewMetrics when the dict is one object shared by the serving threads.
SharedMetrics(t) == metrics[3 - t]

\* line 80: metrics = {}
NewMetrics(t) == <<>>

\* line 120: the generator starts and enters get_metrics().
StartCollect(t) ==
    /\ listening
    /\ pc[t] \in {"idle", "done", "raised"}
    /\ pc' = [pc EXCEPT ![t] = "get_metrics"]
    /\ metrics' = [metrics EXCEPT ![t] = NewMetrics(t)]
    /\ devices' = [devices EXCEPT ![t] = <<>>]
    /\ di' = [di EXCEPT ![t] = 1]
    /\ status' = [status EXCEPT ![t] = <<>>]
    /\ ci' = [ci EXCEPT ![t] = 1]
    /\ out' = [out EXCEPT ![t] = <<>>]
    /\ exc' = [exc EXCEPT ![t] = "none"]
    /\ printed' = [printed EXCEPT ![t] = <<>>]
    /\ refreshes' = [refreshes EXCEPT ![t] = 0]
    /\ UNCHANGED runVars

\* line 85: devices = await api.devices()
ListDevices(t, dl) ==
    /\ pc[t] = "get_metrics"
    /\ devices' = [devices EXCEPT ![t] = dl]
    /\ di' = [di EXCEPT ![t] = 1]
    /\ pc' = [pc EXCEPT ![t] = "for_device"]
    /\ UNCHANGED << status, metrics, ci, out, exc, printed, refreshes >>
    /\ UNCHANGED runVars

\* line 85 raising (unauthorized, unreachable): leaves get_metrics and collect.
ListDevicesRaises(t) ==
    /\ pc[t] = "get_metrics"
    /\ exc' = [exc EXCEPT ![t] = "ClientError"]
    /\ pc' = [pc EXCEPT ![t] = "raised"]
    /\ UNCHANGED << devices, di, status, metrics, ci, out, printed, refreshes >>
    /\ UNCHANGED runVars

\* lines 89-90: not the selected device, continue.
SkipDevice(t) ==
    /\ pc[t] = "for_device"
    /\ di[t] <= Len(devices[t])
    /\ devices[t][di[t]] # AC
    /\ di' = [di EXCEPT ![t] = di[t] + 1]
    /\ UNCHANGED << pc, devices, status, metrics, ci, out, exc, printed, refreshes >>
    /\ UNCHANGED runVars

RefreshingLine == [msg |-> "Refreshing data", name |-> ""]

\* lines 92-93: await device.status.refresh() brings the device's values.
Refresh(t, values) ==
    /\ pc[t] = "for_device"
    /\ di[t] <= Len(devices[t])
    /\ devices[t][di[t]] = AC
    /\ printed' = [printed EXCEPT ![t] = printed[t] \o << RefreshingLine >>]
    /\ refreshes' = [refreshes EXCEPT ![t] = refreshes[t] + 1]
    /\ status' = [status EXCEPT ![t] = values]
    /\ pc' = [pc EXCEPT ![t] = "for_value"]
    /\ UNCHANGED << devices, di, metrics, ci, out, exc >>
    /\ UNCHANGED runVars

\* line 93 raising.
RefreshRaises(t) ==
    /\ pc[t] = "for_device"
    /\ di[t] <= Len(devices[t])
    /\ devices[t][di[t]] = AC
    /\ printed' = [printed EXCEPT ![t] = printed[t] \o << RefreshingLine >>]
    /\ refreshes' = [refreshes EXCEPT ![t] = refreshes[t] + 1]
    /\ exc' = [exc EXCEPT ![t] = "ClientError"]
    /\ pc' = [pc EXCEPT ![t] = "raised"]
    /\ UNCHANGED << devices, di, status, metrics, ci, out >>
    /\ UNCHANGED runVars

\* NextDevice without the break: the loop goes on to the next device.
NextDeviceNoBreak(dl, i) == i + 1

\* line 112: break leaves the device loop.
NextDevice(dl, i) == Len(dl) + 1

\* lines 95-112: the loop over the refreshed values, then break.
FlattenStatus(t) ==
    /\ pc[t] = "for_value"
    /\ \E acc \in {Flatten(metric_list, mappings, status[t], 1,
                          [metrics |-> metrics[t], printed |-> printed[t], exc |-> "none"])} :
           /\ metrics' = [metrics EXCEPT ![t] = acc.metrics]
           /\ printed' = [printed EXCEPT ![t] = acc.printed]
           /\ exc' = [exc EXCEPT ![t] = acc.exc]
           /\ IF acc.exc = "none"
              THEN /\ pc' = [pc EXCEPT ![t] = "for_device"]
                   /\ di' = [di EXCEPT ![t] = NextDevice(devices[t], di[t])]
              ELSE /\ pc' = [pc EXCEPT ![t] = "raised"]
                   /\ di' = di
    /\ UNCHANGED << devices, status, ci, out, refreshes >>
    /\ UNCHANGED runVars

\* line 114: return metrics; collect() starts its loop over the catalog.
ReturnMetrics(t) ==
    /\ pc[t] = "for_device"
    /\ di[t] > Len(devices[t])
    /\ pc' = [pc EXCEPT ![t] = "for_info"]
    /\ ci' = [ci EXCEPT ![t] = 1]
    /\ UNCHANGED << devices, di, status, metrics, out, exc, printed, refreshes >>
    /\ UNCHANGED runVars

\* lines 122-140: one catalog entry.
Render(t) ==
    /\ pc[t] = "for_info"
    /\ ci[t] <= Len(metric_list)
    /\ \E r \in {RenderEntry(metric_list[ci[t]], metrics[t])} :
           /\ out' = [out EXCEPT ![t] = out[t] \o r.yield]
           /\ printed' = [printed EXCEPT ![t] = printed[t] \o r.printed]
           /\ exc' = [exc EXCEPT ![t] = r.exc]
           /\ IF r.exc = "none"
              THEN pc' = pc /\ ci' = [ci EXCEPT ![t] = ci[t] + 1]
              ELSE pc' = [pc EXCEPT ![t] = "raised"] /\ ci' = ci
    /\ UNCHANGED << devices, di, status, metrics, refreshes >>
    /\ UNCHANGED runVars

\* The catalog is exhausted: the generator ends, the scrape has its snapshot.
Exhausted(t) ==
    /\ pc[t] = "for_info"
    /\ ci[t] > Len(metric_list)
    /\ pc' = [pc EXCEPT ![t] = "done"]
    /\ UNCHANGED << devices, di, status, metrics, ci, out, exc, printed, refreshes >>
    /\ UNCHANGED runVars

Startup ==
    \/ ParseArgs
    \/ LoadCatalog
    \/ SetMappings
    \/ Register
    \/ StartHttpServer
    \/ StartHttpServerRaises
    \/ MainLoop

Scrape(t, DL, VS) ==
    \/ StartCollect(t)
    \/ \E dl \in DL : ListDevices(t, dl)
    \/ ListDevicesRaises(t)
    \/ SkipDevice(t)
    \/ \E values \in VS : Refresh(t, values)
    \/ RefreshRaises(t)
    \/ FlattenStatus(t)
    \/ ReturnMetrics(t)
    \/ Render(t)
    \/ Exhausted(t)

\* Scrapes served one at a time.
Next == Startup \/ Scrape(1, DeviceLists, Docs)

Spec == Init /\ [][Next]_vars

(***************************************************************************)
(* Two scrapes in flight: the HTTP server serves each request on a thread  *)
(* of its own.  Small inputs, both threads.                                *)
(***************************************************************************)
ConcCatalogs ==
    { << Entry("operation", "sub_metric"), Entry("status", "enum") >>,
      << Entry("fan_mode", "enum"), Entry("power", "counter") >> }

ConcSources == {Source("unparsable", <<>>)} \cup {Source("ok", c) : c \in ConcCatalogs}

ConcDocs ==
    { << Field(Operation, Dict(<< Field(Status, Str("ready")) >>)) >>,
      << Field(FanMode, Str("high")), Field(Power, Num(42)) >>,
      << Field(Power, Num(42)), Field(FanMode, Str("ludicrous")) >>,
      << Field(Status, Str("notready")) >> }

ConcDeviceLists == { << "Other" >>, << "Other", AC >> }

InitConc == InitWith(ConcSources)

NextConc == Startup \/ \E t \in Threads : Scrape(t, ConcDeviceLists, ConcDocs)

SpecConc == InitConc /\ [][NextConc]_vars

(***************************************************************************)
(* Vocabulary of the properties.                                           *)
(***************************************************************************)
Range(seq) == {seq[i] : i \in DOMAIN seq}

Matches(dl) == \E i \in DOMAIN dl : dl[i] = AC

\* The catalog entries collect() renders as samples.
SampleTypes == {"counter", "gauge", "enum"}

\* Thread t's get_metrics() has returned after flattening a refreshed status.
Flattened(t) ==
    /\ refreshes[t] = 1
    /\ \/ pc[t] = "for_device" /\ di[t] > Len(devices[t])
       \/ pc[t] \in {"for_info", "done"}
       \/ pc[t] = "raised" /\ exc[t] = "KeyError"

\* Thread t's collect() has ended after get_metrics() returned.
Ended(t) == pc[t] = "done" \/ (pc[t] = "raised" /\ exc[t] = "KeyError")

\* The sample collect() builds for a catalog entry.
SampleOf(info, value) ==
    IF info.type = "counter"
    THEN Sample("counter", "foo", info, value)
    ELSE Sample("gauge", "bar", info, value)

\* Catalog entries of a rendered kind with no value in m.
Missing(ml, m) ==
    {i \in DOMAIN ml : ml[i].type \in SampleTypes /\ ml[i].name \notin DOMAIN m}

\* The whitelisted (canonical name, raw value) pairs of a document, in
\* iteration order, nested fields in the place of their parent.
RECURSIVE Emitted(_, _, _)
Emitted(ml, fields, i) ==
    IF i > Len(fields) THEN <<>>
    ELSE LET f == fields[i]
             here == IF ~(underscore(f.name) \in Names(ml)) THEN <<>>
                     ELSE IF f.value.tag = "dict"
                          THEN [k \in DOMAIN f.value.sub |->
                                   [name |-> underscore(f.value.sub[k].name),
                                    value |-> f.value.sub[k].value]]
                          ELSE << [name |-> underscore(f.name), value |-> f.value] >>
         IN  SelectSeq(here, LAMBDA e : e.name \in Names(ml)) \o Emitted(ml, fields, i + 1)

\* What get_metrics() returns for a device list and the refreshed values.
FreshMetrics(ml, mp, dl, values) ==
    IF Matches(dl)
    THEN Flatten(ml, mp, values, 1,
                 [metrics |-> <<>>, printed |-> << RefreshingLine >>, exc |-> "none"])
    ELSE [metrics |-> <<>>, printed |-> <<>>, exc |-> "none"]

\* The whole loop of collect() over the catalog, from entry i on.
RECURSIVE RenderAll(_, _, _, _)
RenderAll(ml, m, i, acc) ==
    IF i > Len(ml) \/ acc.exc # "none" THEN acc
    ELSE LET r == RenderEntry(ml[i], m)
         IN  RenderAll(ml, m, i + 1,
                       [out |-> acc.out \o r.yield, exc |-> r.exc,
                        printed |-> acc.printed \o r.printed])

\* The outcome of one collect() as a function of the catalog, the mapping
\* tables, the listed devices and the values the refresh brought.
Snapshot(ml, mp, dl, values) ==
    LET f == FreshMetrics(ml, mp, dl, values)
    IN  IF f.exc # "none"
        THEN [out |-> <<>>, exc |-> f.exc, printed |-> f.printed]
        ELSE RenderAll(ml, f.metrics, 1, [out |-> <<>>, exc |-> "none", printed |-> f.printed])

(***************************************************************************)
(* C1.  Partial-failure isolation: when the flattened set lacks the value  *)
(* of exactly one counter/gauge/enum catalog entry, collect() ends without *)
(* an exception and has yielded the sample of every other such entry.      *)
(***************************************************************************)
C1_PartialFailureIsolation ==
    \A t \in Threads :
        (Flattened(t) /\ Ended(t) /\ Cardinality(Missing(metric_list, metrics[t])) = 1) =>
            /\ pc[t] = "done"
            /\ \A i \in DOMAIN metric_list :
                   (metric_list[i].type \in SampleTypes
                        /\ metric_list[i].name \in DOMAIN metrics[t]) =>
                       SampleOf(metric_list[i], metrics[t][metric_list[i].name])
                           \in Range(out[t])

(***************************************************************************)
(* C2.  Whitelist closure: every key of the mapping get_metrics() builds   *)
(* is a catalog name, and no sample carries the name of a sub_metric entry.*)
(***************************************************************************)
C2_WhitelistClosure ==
    \A t \in Threads :
        /\ DOMAIN metrics[t] \subseteq Names(metric_list)
        /\ \A k \in DOMAIN out[t] : \A i \in DOMAIN metric_list :
               out[t][k].name = prefix \o metric_list[i].name =>
                   metric_list[i].type # "sub_metric"

\* A finished scrape whose document had a field outside the catalog and a
\* field stored under the name of a sub_metric entry.
C2_Witness ==
    /\ pc[1] = "done"
    /\ \E i \in DOMAIN status[1] : ~Has(metric_list, underscore(status[1][i].name))
    /\ \E i \in DOMAIN metric_list :
           metric_list[i].type = "sub_metric" /\ metric_list[i].name \in DOMAIN metrics[1]

(***************************************************************************)
(* C3.  Scenario C: the document {"Operation": {"Status": "ready"}}.       *)
(***************************************************************************)
ScenarioC == << Field(Operation, Dict(<< Field(Status, Str("ready")) >>)) >>

StatusEntry == Entry("status", "enum")

StatusSample == Sample("gauge", "bar", StatusEntry, Num(0))

IndexOf(ml, name) == CHOOSE i \in DOMAIN ml : ml[i].name = name

\* As claimed: for every catalog that includes status (enum), the document
\* flattens to a set containing status and gauge status=0 is in the snapshot.
C3_NestedByOwnNameOnly ==
    \A t \in Threads :
        (Flattened(t) /\ status[t] = ScenarioC /\ StatusEntry \in Range(metric_list)) =>
            /\ "status" \in DOMAIN metrics[t]
            /\ Ended(t) => StatusSample \in Range(out[t])

\* Amended: the nested field is flattened, under its own canonical name and
\* as its mapped code, exactly when the catalog also lists the parent's
\* canonical name `operation`; gauge status=0 is yielded exactly when that
\* holds and the loop of collect() has passed the entry `status`.
C3_NestedNeedsParent ==
    \A t \in Threads :
        (Flattened(t) /\ status[t] = ScenarioC /\ StatusEntry \in Range(metric_list)) =>
            /\ metrics[t] = IF Has(metric_list, "operation")
                            THEN "status" :> Num(0)
                            ELSE <<>>
            /\ StatusSample \in Range(out[t]) <=>
                   /\ Has(metric_list, "operation")
                   /\ pc[t] \in {"for_info", "done", "raised"}
                   /\ ci[t] > IndexOf(metric_list, "status")

C3_Witness ==
    /\ pc[1] = "done"
    /\ status[1] = ScenarioC
    /\ StatusEntry \in Range(metric_list)
    /\ Has(metric_list, "operation")
    /\ out[1] = << StatusSample >>

(***************************************************************************)
(* C4.  A name with a mapping table resolves to the table's code, or to 0  *)
(* with a diagnostic; so a scrape whose document carries an unrecognized   *)
(* categorical value of a gauge/enum catalog entry yields a gauge sample   *)
(* with value 0 for that field.                                            *)
(***************************************************************************)
Unrecognized(mp, name, value) ==
    /\ name \in DOMAIN mp
    /\ value.tag = "str"
    /\ value.s \notin DOMAIN mp[name]

C4_UnrecognizedYieldsZero ==
    \A t \in Threads :
        (refreshes[t] = 1 /\ pc[t] \in {"done", "raised"} /\ exc[t] # "ClientError") =>
            /\ \A name \in DOMAIN metrics[t] :
                   name \in DOMAIN mappings =>
                       \/ metrics[t][name] = Num(0)
                       \/ \E key \in DOMAIN mappings[name] :
                              metrics[t][name] = Num(mappings[name][key])
            /\ \A i \in DOMAIN status[t] : \A k \in DOMAIN metric_list :
                   ( /\ metric_list[k].name = underscore(status[t][i].name)
                     /\ metric_list[k].type \in {"gauge", "enum"}
                     /\ Unrecognized(mappings, metric_list[k].name, status[t][i].value)
                     /\ \A j \in DOMAIN status[t] :
                            underscore(status[t][j].name) = metric_list[k].name => j = i ) =>
                       Sample("gauge", "bar", metric_list[k], Num(0)) \in Range(out[t])

(***************************************************************************)
(* C5.  Value Mapper totality: is_mapped never raises and returns a        *)
(* number; no non-numeric value reaches a sample.                          *)
(***************************************************************************)
C5_MapperTotal ==
    \A t \in Threads :
        /\ exc[t] # "TypeError"
        /\ \A name \in DOMAIN metrics[t] : IsNumeric(metrics[t][name])
        /\ \A k \in DOMAIN out[t] : IsNumeric(out[t][k].value)

(***************************************************************************)
(* C6.  Fetch per scrape: a collect() call refreshes the device status at  *)
(* most once; a refresh happens only in a step of a running collect();     *)
(* the metrics a scrape renders are the ones flattened from the values its *)
(* own refresh brought (none when it refreshed nothing).                   *)
(***************************************************************************)
InCollect(t) == pc[t] \in {"get_metrics", "for_device", "for_value", "for_info"}

C6_AtMostOneRefresh ==
    \A t \in Threads :
        /\ refreshes[t] <= 1
        /\ pc[t] \in {"for_info", "done"} =>
               metrics[t] = IF refreshes[t] = 0
                            THEN <<>>
                            ELSE FreshMetrics(metric_list, mappings, devices[t], status[t]).metrics

C6_RefreshOnlyInCollect ==
    \A t \in Threads :
        (refreshes'[t] > refreshes[t] \/ (status'[t] # status[t] /\ status'[t] # <<>>)) =>
            /\ InCollect(t)
            /\ refreshes'[t] = refreshes[t] + 1

C6_FetchPerScrape == [](C6_AtMostOneRefresh) /\ [][C6_RefreshOnlyInCollect]_vars

\* A finished scrape over a device list with two matching devices.
C6_Witness ==
    /\ pc[1] = "done"
    /\ refreshes[1] = 1
    /\ Cardinality({i \in DOMAIN devices[1] : devices[1][i] = AC}) = 2
    /\ out[1] # <<>>

(***************************************************************************)
(* C7.  Scrape independence: whatever the other thread does, what a        *)
(* collect() has yielded and raised when it ends is the function Snapshot  *)
(* of the catalog, the mapping tables and what its own fetch returned; the *)
(* catalog and the mapping tables stay as the constructor set them.        *)
(***************************************************************************)
C7_ScrapeIndependence ==
    /\ listening => metric_list = source.whitelist /\ mappings = Mappings
    /\ \A t \in Threads :
           (pc[t] \in {"done", "raised"} /\ exc[t] # "ClientError") =>
               LET snap == Snapshot(metric_list, mappings, devices[t], status[t])
               IN  /\ out[t] = snap.out
                   /\ exc[t] = snap.exc
                   /\ printed[t] = snap.printed

\* Thread 1 has finished a scrape while thread 2 is in the middle of one
\* over other values.
C7_Witness ==
    /\ pc[1] = "done"
    /\ out[1] # <<>>
    /\ pc[2] = "for_info"
    /\ ci[2] > 1
    /\ metrics[2] # <<>>
    /\ status[1] # status[2]

(***************************************************************************)
(* C8.  A selector that matches no listed device is a scrape failure:      *)
(* such a collect() never ends as a successful snapshot.                   *)
(***************************************************************************)
C8_NoDeviceIsFailure ==
    \A t \in Threads : pc[t] = "done" => Matches(devices[t])

(***************************************************************************)
(* C9.  Startup ordering: the collector is registered and the listener     *)
(* bound only after the catalog was loaded; when the load fails neither    *)
(* ever happens.                                                           *)
(***************************************************************************)
LoadFails == get_device_metrics(source).exc # "none"

C9_LoadBeforeListen ==
    /\ LoadFails => ~registered /\ ~listening
    /\ (registered \/ listening) =>
           /\ run_pc \in {"start_http_server", "main_loop", "exited"}
           /\ metric_list = source.whitelist
    /\ listening => registered

\* The constructor has raised on a bad catalog source.
C9_Witness ==
    /\ run_pc = "exited"
    /\ run_exc \in {"FileNotFoundError", "JSONDecodeError", "KeyError"}
    /\ ~registered
    /\ ~listening

(***************************************************************************)
(* C10.  Last write wins: after flattening, the value under each name is   *)
(* the one resolved from the last whitelisted field of the document with   *)
(* that canonical name; the flattening raises only where is_mapped does.   *)
(***************************************************************************)
LastOf(em, name) ==
    em[CHOOSE k \in DOMAIN em :
           em[k].name = name /\ \A j \in DOMAIN em : em[j].name = name => j <= k]

C10_LastWriteWins ==
    \A t \in Threads :
        LET em == Emitted(metric_list, status[t], 1)
        IN  /\ Flattened(t) =>
                /\ DOMAIN metrics[t] = {em[k].name : k \in DOMAIN em}
                /\ \A name \in DOMAIN metrics[t] :
                       metrics[t][name] =
                           is_mapped(mappings, name, LastOf(em, name).value).val
            /\ (pc[t] = "raised" /\ exc[t] = "TypeError") =>
                   \E k \in DOMAIN em :
                       is_mapped(mappings, em[k].name, em[k].value).exc = "TypeError"

\* A finished scrape whose document had two fields of one canonical name
\* that resolve to different values.
C10_Witness ==
    /\ pc[1] = "done"
    /\ LET em == Emitted(metric_list, status[1], 1)
       IN  \E j, k \in DOMAIN em :
               /\ j < k
               /\ em[j].name = em[k].name
               /\ is_mapped(mappings, em[j].name, em[j].value).val
                      # is_mapped(mappings, em[k].name, em[k].value).val
               /\ metrics[1][em[k].name] = is_mapped(mappings, em[k].name, em[k].value).val

====
